---- MODULE Spec2Model ----
(***************************************************************************)
(* FileSignatureScanner (src/main.py): identification of a file's type     *)
(* from its leading bytes against a JSON signature database or the         *)
(* python-magic classifier, and extraction of a payload for the file types *)
(* extract_data knows.                                                     *)
(***************************************************************************)
EXTENDS Integers, Sequences, FiniteSets, TLC

\* ------------------------------------------------------------------------
\* Bounds of the model
\* ------------------------------------------------------------------------
MaxFileLen == 2      \* short sample files hold at most this many bytes
MaxSignatures == 2   \* signatures in one signature database, all types together
MaxStreams == 2      \* streams in one container
MaxHandles == 2      \* handles that may be open at once

\* ------------------------------------------------------------------------
\* Program constants
\* ------------------------------------------------------------------------
HeaderSize == 1024   \* f.read(1024)
OleType == "application/x-ole-storage"
JpegType == "image/jpeg"

\* ------------------------------------------------------------------------
\* Bytes and hex strings.  A str is a sequence of one-character strings,
\* a bytes object a sequence of integers in 0..255.
\* ------------------------------------------------------------------------
Whitespace == {" ", "\t", "\n", "\r", "\f"}

HexDigitValue(c) ==
    CASE c = "0" -> 0  [] c = "1" -> 1  [] c = "2" -> 2  [] c = "3" -> 3
      [] c = "4" -> 4  [] c = "5" -> 5  [] c = "6" -> 6  [] c = "7" -> 7
      [] c = "8" -> 8  [] c = "9" -> 9
      [] c \in {"a", "A"} -> 10  [] c \in {"b", "B"} -> 11
      [] c \in {"c", "C"} -> 12  [] c \in {"d", "D"} -> 13
      [] c \in {"e", "E"} -> 14  [] c \in {"f", "F"} -> 15
      [] OTHER -> -1

\* bytes.fromhex(s): the characters are consumed in pairs of hex digits,
\* whitespace is skipped before a pair only (never inside one), so the
\* non-whitespace characters must pair up as neighbours and all be hex
\* digits.  The result is [ok |-> TRUE, v |-> bytes], or
\* [ok |-> FALSE, v |-> <<>>] for ValueError.
DigitPositions(s) ==
    SelectSeq([i \in 1..Len(s) |-> i], LAMBDA i : s[i] \notin Whitespace)

FromHex(s) ==
    LET pos == DigitPositions(s)
        n   == Len(pos) \div 2
    IN  IF /\ Len(pos) = 2 * n
           /\ \A k \in 1..n : pos[2 * k] = pos[2 * k - 1] + 1
           /\ \A k \in 1..Len(pos) : HexDigitValue(s[pos[k]]) >= 0
        THEN [ok |-> TRUE,
              v |-> [k \in 1..n |-> 16 * HexDigitValue(s[pos[2 * k - 1]])
                                     + HexDigitValue(s[pos[2 * k]])]]
        ELSE [ok |-> FALSE, v |-> <<>>]

Min(a, b) == IF a < b THEN a ELSE b

\* A prefix test that compares only the bytes both sequences have.
StartsWithCommonPart(data, prefix) ==
    \A i \in 1..Min(Len(prefix), Len(data)) : data[i] = prefix[i]

\* header.startswith(prefix)
StartsWith(data, prefix) ==
    /\ Len(prefix) <= Len(data)
    /\ \A i \in 1..Len(prefix) : data[i] = prefix[i]

\* A read that always stops after HeaderSize bytes.
ReadCapped(content, size) ==
    SubSeq(content, 1, Min(HeaderSize, Len(content)))

\* f.read(size) of a file opened 'rb' at offset 0; size = -1 reads to EOF.
Read(content, size) ==
    IF size < 0 THEN content
    ELSE SubSeq(content, 1, Min(size, Len(content)))

\* ------------------------------------------------------------------------
\* JSON values, as json.load returns them.
\*   the document:      [t, items]   t = "obj": items is the sequence of
\*                                   <<key, value>> in insertion order;
\*                                   t = "arr", "null": no items
\*   a value of a key:  [t, s, a]    t = "arr": a is the sequence of elements;
\*                                   t = "str": s is the sequence of characters;
\*                                   t = "num"
\*   a list element:    [t, s]       t = "str" with characters s, or t = "num"
\* ------------------------------------------------------------------------
JObj(items) == [t |-> "obj", items |-> items]
JTopArr == [t |-> "arr", items |-> <<>>]
JTopNull == [t |-> "null", items |-> <<>>]

JArr(elems) == [t |-> "arr", s |-> <<>>, a |-> elems]
JStr(chars) == [t |-> "str", s |-> chars, a |-> <<>>]
JNum == [t |-> "num", s |-> <<>>, a |-> <<>>]

EStr(chars) == [t |-> "str", s |-> chars]
ENum == [t |-> "num", s |-> <<>>]

\* "for signature in signatures": what Python's iteration yields for the
\* value of a key: the elements of a list, the one-character strings of a
\* str; TypeError for a number.
Iter(val) ==
    CASE val.t = "arr" -> [ok |-> TRUE, v |-> val.a]
      [] val.t = "str" ->
            [ok |-> TRUE, v |-> [i \in 1..Len(val.s) |-> EStr(<<val.s[i]>>)]]
      [] OTHER -> [ok |-> FALSE, v |-> <<>>]

\* The inner loop of identify_file_type over one type's signatures, from
\* element j on: "match", "nomatch", or the exception raised.
RECURSIVE ScanSignatures(_, _, _)
ScanSignatures(sigs, j, hdr) ==
    IF j > Len(sigs) THEN "nomatch"
    ELSE IF sigs[j].t # "str" THEN "TypeError"
    ELSE LET d == FromHex(sigs[j].s)
         IN  IF ~d.ok THEN "ValueError"
             ELSE IF StartsWith(hdr, d.v) THEN "match"
             ELSE ScanSignatures(sigs, j + 1, hdr)

\* The outer loop run over the items from the last one to the first.
RECURSIVE ScanTableReversed(_, _, _)
ScanTableReversed(items, i, hdr) ==
    IF i > Len(items) THEN [kind |-> "none", label |-> "", exc |-> ""]
    ELSE LET item == items[Len(items) - i + 1]
             it == Iter(item[2])
         IN  IF ~it.ok
             THEN [kind |-> "raise", label |-> "", exc |-> "TypeError"]
             ELSE LET r == ScanSignatures(it.v, 1, hdr)
                  IN  CASE r = "match" ->
                             [kind |-> "return", label |-> item[1], exc |-> ""]
                        [] r = "nomatch" -> ScanTableReversed(items, i + 1, hdr)
                        [] OTHER -> [kind |-> "raise", label |-> "", exc |-> r]

\* The outer loop over self.signatures.items(), from item i on.
\* [kind |-> "return", label], [kind |-> "none"], or [kind |-> "raise", exc].
RECURSIVE ScanTable(_, _, _)
ScanTable(items, i, hdr) ==
    IF i > Len(items) THEN [kind |-> "none", label |-> "", exc |-> ""]
    ELSE LET it == Iter(items[i][2])
         IN  IF ~it.ok
             THEN [kind |-> "raise", label |-> "", exc |-> "TypeError"]
             ELSE LET r == ScanSignatures(it.v, 1, hdr)
                  IN  CASE r = "match" ->
                             [kind |-> "return", label |-> items[i][1], exc |-> ""]
                        [] r = "nomatch" -> ScanTable(items, i + 1, hdr)
                        [] OTHER -> [kind |-> "raise", label |-> "", exc |-> r]

\* The signature-database branch of identify_file_type.
MatchSignatures(sigs, hdr) ==
    IF sigs.t # "obj"
    THEN [kind |-> "raise", label |-> "", exc |-> "AttributeError"]
    ELSE ScanTable(sigs.items, 1, hdr)

\* ------------------------------------------------------------------------
\* Inputs: signature sources, files and containers
\* ------------------------------------------------------------------------
SeqsUpTo(S, n) == UNION {[1..k -> S] : k \in 0..n}

SampleBytes == {170, 187}

\* A file one byte longer than the header that identify_file_type reads.
LongFile ==
    [i \in 1..(HeaderSize + 1) |-> IF i = 1 THEN 170 ELSE IF i = 2 THEN 187 ELSE 0]

FileContents == SeqsUpTo(SampleBytes, MaxFileLen) \cup {LongFile}

\* The hex string of LongFile: a signature longer than the header.
LongHex ==
    [i \in 1..(2 * (HeaderSize + 1)) |->
        IF i <= 2 THEN "A" ELSE IF i <= 4 THEN "B" ELSE "0"]

HexStrings ==
    { <<"A", "A">>, <<"a", "a", " ", "B", "B">>, <<"Z", "Z">>, <<>> }

TableLabels == {"A", "B"}

\* Values found under a key of the source: lists of hex strings, and values
\* that are no list of strings.
SignatureLists ==
    {JArr(ps) : ps \in SeqsUpTo({EStr(h) : h \in HexStrings}, MaxSignatures)}
OddValues == {JNum, JStr(<<"A", "A">>)}
EntryValues == SignatureLists \cup OddValues

SizeOf(val) == IF val.t = "arr" THEN Len(val.a) ELSE 1

\* Tables holding the signature that is longer than the header.
LongTables ==
    { << <<"A", JArr(<<EStr(LongHex)>>)>> >>,
      << <<"A", JArr(<<EStr(LongHex)>>)>>, <<"B", JArr(<<EStr(<<"A", "A">>)>>)>> >> }

Tables ==
    {<<>>}
    \cup {<< <<l, val>> >> : l \in TableLabels, val \in EntryValues}
    \cup {<< <<ls[1], vals[1]>>, <<ls[2], vals[2]>> >> :
            ls \in {x \in TableLabels \X TableLabels : x[1] # x[2]},
            vals \in {y \in EntryValues \X EntryValues :
                         SizeOf(y[1]) + SizeOf(y[2]) <= MaxSignatures}}
    \cup LongTables

\* What the --database argument names: nothing, a path with no file, a file
\* that is not JSON, or a file holding a JSON value.
Sources ==
    {[kind |-> k, json |-> JTopNull] : k \in {"absent", "missing", "badjson"}}
    \cup {[kind |-> "json", json |-> j] :
            j \in {JObj(tb) : tb \in Tables} \cup {JTopArr, JTopNull}}

ExtractSources ==
    {src \in Sources :
        \/ src.kind # "json"
        \/ src.json = JObj(<< <<"A", JArr(<<EStr(<<"A", "A">>)>>)>> >>)}

\* A container as the olefile parser sees the file: "NotOle" (isOleFile is
\* false), "Corrupt" (the magic is there, the directory cannot be parsed), or
\* the stream paths in listdir() order.  A path is the sequence of storage
\* names leading to the stream, then the stream's name.
StreamPaths == { <<"S">>, <<"E">>, <<"M", "S">> }

StreamData(path) ==
    CASE path = <<"S">> -> <<1, 2>>
      [] path = <<"E">> -> <<>>
      [] path = <<"M", "S">> -> <<3>>
      [] OTHER -> <<>>

Directories ==
    {d \in SeqsUpTo(StreamPaths, MaxStreams) :
        \A i, j \in 1..Len(d) : i # j => d[i] # d[j]}

Containers ==
    {[kind |-> k, dir |-> <<>>] : k \in {"NotOle", "Corrupt"}}
    \cup {[kind |-> "Ole", dir |-> d] : d \in Directories}

\* ole.openstream(name) for a name of one component: the stream's bytes,
\* or an error when the entry is a storage or does not exist.
OpenStream(dir, name) ==
    IF \E i \in 1..Len(dir) : dir[i] = <<name>>
    THEN [ok |-> TRUE, v |-> StreamData(<<name>>)]
    ELSE [ok |-> FALSE, v |-> <<>>]

\* Labels extract_data is called with, and what the classifier may answer.
ExtractLabels == {OleType, JpegType, "A", "text/plain"}
MagicAnswers == {"", OleType, JpegType, "raise"}

\* An except clause that catches the named class only, no subclass.
CatchesExactClass(handler, e) == e = handler

\* Exception classes: what an "except <handler>" clause catches.
\* FileNotFoundError is an OSError, and IOError is OSError; the parser's
\* OleFileIOError is a class of its own.
Catches(handler, e) ==
    CASE handler = "IOError" -> e \in {"IOError", "FileNotFoundError"}
      [] handler = "FileNotFoundError" -> e = "FileNotFoundError"
      [] handler = "OleFileIOError" -> e = "OleFileIOError"
      [] OTHER -> FALSE

\* The errors the container parser raises for a file it cannot process.
ParserErrors == {"OleFileIOError", "IOError"}

\* ------------------------------------------------------------------------
\* State
\* ------------------------------------------------------------------------
VARIABLES
    source,        \* what the signature_db argument names
    signature_db,  \* self.signature_db is truthy
    signatures,    \* self.signatures
    fileExists,    \* the scanned path names a file
    fileContent,   \* the bytes of that file
    container,     \* the file as the container parser sees it
    pc,            \* position of the running call
    file_type,     \* the file_type argument of extract_data
    header,        \* the bytes read by identify_file_type
    handles,       \* number of open file and container handles
    outcome,       \* "none", "returned" or "raised" for the last call
    retKind,       \* "None", "str" or "bytes"
    retLabel,      \* the returned str
    retBytes,      \* the returned bytes
    exc,           \* the exception that left the call
    exit,          \* the line of the statement that ended the call
    logged,        \* the last record the call logged: its level and the
                   \* file type its message names
    consulted      \* what the identify call consulted: "table", "magic"

vars == <<source, signature_db, signatures, fileExists, fileContent,
          container, pc, file_type, header, handles, outcome, retKind,
          retLabel, retBytes, exc, exit, logged, consulted>>

inputVars == <<source, fileContent, container>>
scannerVars == <<signature_db, signatures>>
resultVars == <<outcome, retKind, retLabel, retBytes, exc, exit, logged>>

InitWith(sources, containers) ==
    /\ source \in sources
    /\ fileContent \in FileContents
    /\ container \in containers
    /\ fileExists \in BOOLEAN
    /\ signature_db = FALSE
    /\ signatures = JObj(<<>>)
    /\ pc = "start"
    /\ file_type = ""
    /\ header = <<>>
    /\ handles = 0
    /\ outcome = "none"
    /\ retKind = "None"
    /\ retLabel = ""
    /\ retBytes = <<>>
    /\ exc = ""
    /\ exit = 0
    /\ logged = [level |-> "none", names |-> ""]
    /\ consulted = "none"

\* Every source with a file that is no container: the identification runs.
InitIdentify == InitWith(Sources, {c \in Containers : c.kind = "NotOle"})

\* Every container with a few sources: the extraction runs.
Init == InitWith(ExtractSources, Containers)

\* logging.info / logging.warning / logging.error
Log(level, names) == logged' = [level |-> level, names |-> names]

\* return None at line ln, after a log record of the given level
ReturnNone(ln, level, names) ==
    /\ outcome' = "returned" /\ retKind' = "None" /\ retLabel' = ""
    /\ retBytes' = <<>> /\ exc' = "" /\ exit' = ln /\ pc' = "idle"
    /\ Log(level, names)

\* return <str> at line ln, after logging.info
ReturnStr(label, ln) ==
    /\ outcome' = "returned" /\ retKind' = "str" /\ retLabel' = label
    /\ retBytes' = <<>> /\ exc' = "" /\ exit' = ln /\ pc' = "idle"
    /\ Log("info", label)

\* return <bytes> at line ln, after logging.info
ReturnBytes(data, ln) ==
    /\ outcome' = "returned" /\ retKind' = "bytes" /\ retLabel' = ""
    /\ retBytes' = data /\ exc' = "" /\ exit' = ln /\ pc' = "idle"
    /\ Log("info", "")

\* exception e is raised at line ln and not caught
Raised(e, ln) ==
    /\ outcome' = "raised" /\ retKind' = "None" /\ retLabel' = ""
    /\ retBytes' = <<>> /\ exc' = e /\ exit' = ln

\* exception e, raised at line ln, leaves the call; nothing is logged
Propagate(e, ln) == Raised(e, ln) /\ pc' = "idle" /\ UNCHANGED logged

\* a call begins: nothing returned or logged yet
Begin ==
    /\ outcome' = "none" /\ retKind' = "None" /\ retLabel' = ""
    /\ retBytes' = <<>> /\ exc' = "" /\ exit' = 0
    /\ Log("none", "")

\* FileSignatureScanner.__init__
Construct ==
    /\ pc = "start"
    /\ signature_db' = (source.kind # "absent")
    /\ CASE source.kind = "absent" ->
               /\ signatures' = JObj(<<>>)
               /\ pc' = "idle"
               /\ UNCHANGED resultVars
         [] source.kind = "missing" ->
               /\ signatures' = JObj(<<>>)
               /\ Raised("FileNotFoundError", 40)
               /\ Log("error", "")
               /\ pc' = "failed"
         [] source.kind = "badjson" ->
               /\ signatures' = JObj(<<>>)
               /\ Raised("ValueError", 43)
               /\ Log("error", "")
               /\ pc' = "failed"
         [] OTHER ->
               /\ signatures' = source.json
               /\ pc' = "idle"
               /\ Log("info", "")
               /\ UNCHANGED <<outcome, retKind, retLabel, retBytes, exc, exit>>
    /\ UNCHANGED <<inputVars, fileExists, file_type, header, handles, consulted>>

\* identify_file_type, lines 56-58: the existence check
IdentifyExists ==
    /\ pc = "idle"
    /\ handles < MaxHandles
    /\ consulted' = "none"
    /\ header' = <<>>
    /\ file_type' = ""
    /\ IF fileExists
       THEN Begin /\ pc' = "id_open"
       ELSE ReturnNone(58, "error", "")
    /\ UNCHANGED <<inputVars, scannerVars, fileExists, handles>>

\* identify_file_type, line 61: open(file_path, 'rb'); a file that is gone
\* raises FileNotFoundError, which "except IOError" catches (lines 63-65)
IdentifyOpen ==
    /\ pc = "id_open"
    /\ IF fileExists
       THEN /\ handles' = handles + 1
            /\ pc' = "id_read"
            /\ UNCHANGED resultVars
       ELSE /\ IF Catches("IOError", "FileNotFoundError")
               THEN ReturnNone(65, "error", "")
               ELSE Propagate("FileNotFoundError", 61)
            /\ UNCHANGED handles
    /\ UNCHANGED <<inputVars, scannerVars, fileExists, file_type, header, consulted>>

\* identify_file_type, line 62: f.read(1024), then the with block closes f;
\* a failing read raises IOError, the with block closes f, then lines 63-65
IdentifyRead ==
    /\ pc = "id_read"
    /\ handles' = handles - 1
    /\ \E ioerror \in BOOLEAN :
         IF ioerror
         THEN /\ IF Catches("IOError", "IOError")
                 THEN ReturnNone(65, "error", "")
                 ELSE Propagate("IOError", 62)
              /\ UNCHANGED header
         ELSE /\ header' = Read(fileContent, HeaderSize)
              /\ pc' = "id_match"
              /\ UNCHANGED resultVars
    /\ UNCHANGED <<inputVars, scannerVars, fileExists, file_type, consulted>>

\* identify_file_type, lines 67-73 and 88-89: the signature database
IdentifyTable ==
    /\ pc = "id_match"
    /\ signature_db
    /\ consulted' = "table"
    /\ LET r == MatchSignatures(signatures, header)
       IN  CASE r.kind = "return" -> ReturnStr(r.label, 73)
             [] r.kind = "none" -> ReturnNone(89, "warning", "")
             [] OTHER -> Propagate(r.exc, 71)
    /\ UNCHANGED <<inputVars, scannerVars, fileExists, file_type, header, handles>>

\* identify_file_type, lines 74-86: python-magic, which answers a MIME type,
\* an empty answer, or raises
IdentifyMagic ==
    /\ pc = "id_match"
    /\ ~signature_db
    /\ consulted' = "magic"
    /\ \E mime_type \in MagicAnswers :
         CASE mime_type = "raise" -> ReturnNone(86, "error", "")
           [] mime_type = "" -> ReturnNone(83, "warning", "")
           [] OTHER -> ReturnStr(mime_type, 80)
    /\ UNCHANGED <<inputVars, scannerVars, fileExists, file_type, header, handles>>

\* A dispatch whose last branch is the whole-file strategy.
StrategyOfElseJpeg(ft) == IF ft = OleType THEN "ole" ELSE "jpeg"

\* extract_data, lines 104, 125, 136: the branch taken for a file type
StrategyOf(ft) ==
    CASE ft = OleType -> "ole"
      [] ft = JpegType -> "jpeg"
      [] OTHER -> "none"

\* extract_data, lines 104, 125, 136-138: the dispatch on file_type
ExtractDispatch ==
    /\ pc = "idle"
    /\ handles < MaxHandles
    /\ \E ft \in ExtractLabels :
         /\ file_type' = ft
         /\ CASE StrategyOf(ft) = "ole" -> Begin /\ pc' = "ole_check"
              [] StrategyOf(ft) = "jpeg" -> Begin /\ pc' = "jpeg_open"
              [] OTHER -> ReturnNone(138, "warning", ft)
    /\ consulted' = "none"
    /\ header' = <<>>
    /\ UNCHANGED <<inputVars, scannerVars, fileExists, handles>>

\* extract_data, lines 106 and 117-119: olefile.isOleFile(file_path) opens
\* the file itself and closes it; a file that is gone raises
\* FileNotFoundError
ExtractIsOle ==
    /\ pc = "ole_check"
    /\ IF ~fileExists
       THEN IF Catches("OleFileIOError", "FileNotFoundError")
            THEN ReturnNone(123, "error", "")
            ELSE Propagate("FileNotFoundError", 106)
       ELSE IF container.kind = "NotOle"
            THEN ReturnNone(119, "error", "")
            ELSE pc' = "ole_open" /\ UNCHANGED resultVars
    /\ UNCHANGED <<inputVars, scannerVars, fileExists, file_type, header, handles, consulted>>

\* extract_data, line 107: ole = olefile.OleFileIO(file_path)
ExtractOleOpen ==
    /\ pc = "ole_open"
    /\ IF ~fileExists
       THEN /\ IF Catches("OleFileIOError", "FileNotFoundError")
               THEN ReturnNone(123, "error", "")
               ELSE Propagate("FileNotFoundError", 107)
            /\ UNCHANGED handles
       ELSE IF container.kind = "Corrupt"
            THEN /\ \E e \in ParserErrors :
                      IF Catches("OleFileIOError", e)
                      THEN ReturnNone(123, "error", "")
                      ELSE Propagate(e, 107)
                 /\ UNCHANGED handles
            ELSE /\ handles' = handles + 1
                 /\ pc' = "ole_streams"
                 /\ UNCHANGED resultVars
    /\ UNCHANGED <<inputVars, scannerVars, fileExists, file_type, header, consulted>>

\* A loop that takes the first entry of listdir() without asking whether
\* there is one.
StreamLoopNoEmptyCase(dir) ==
    LET s == IF dir = <<>> THEN [ok |-> FALSE, v |-> <<>>]
             ELSE OpenStream(dir, dir[1][1])
    IN  IF s.ok THEN [kind |-> "data", v |-> s.v]
        ELSE [kind |-> "error", v |-> <<>>]

\* extract_data, lines 109-113: the loop over ole.listdir(), which ends in
\* its first iteration with the bytes of openstream(stream_name[0]) or with
\* the error openstream raises, and does not run for an empty directory.
StreamLoop(dir) ==
    IF dir = <<>> THEN [kind |-> "empty", v |-> <<>>]
    ELSE LET stream_name == dir[1]
             s == OpenStream(dir, stream_name[1])
         IN  IF s.ok THEN [kind |-> "data", v |-> s.v]
             ELSE [kind |-> "error", v |-> <<>>]

\* extract_data, lines 109-116: the loop over ole.listdir() returns in its
\* first iteration; ole.close() is reached only when there is no stream
ExtractOleStreams ==
    /\ pc = "ole_streams"
    /\ LET r == StreamLoop(container.dir)
       IN  CASE r.kind = "empty" ->
                  /\ handles' = handles - 1
                  /\ ReturnNone(116, "warning", "")
             [] r.kind = "data" ->
                  /\ UNCHANGED handles
                  /\ ReturnBytes(r.v, 113)
             [] OTHER ->
                  /\ UNCHANGED handles
                  /\ \E e \in ParserErrors :
                       IF Catches("OleFileIOError", e)
                       THEN ReturnNone(123, "error", "")
                       ELSE Propagate(e, 111)
    /\ UNCHANGED <<inputVars, scannerVars, fileExists, file_type, header, consulted>>

\* extract_data, line 128: open(file_path, 'rb')
ExtractJpegOpen ==
    /\ pc = "jpeg_open"
    /\ IF fileExists
       THEN /\ handles' = handles + 1
            /\ pc' = "jpeg_read"
            /\ UNCHANGED resultVars
       ELSE /\ IF Catches("IOError", "FileNotFoundError")
               THEN ReturnNone(134, "error", "")
               ELSE Propagate("FileNotFoundError", 128)
            /\ UNCHANGED handles
    /\ UNCHANGED <<inputVars, scannerVars, fileExists, file_type, header, consulted>>

\* extract_data, lines 129-131: data = f.read(), the with block closes f
ExtractJpegRead ==
    /\ pc = "jpeg_read"
    /\ handles' = handles - 1
    /\ \E ioerror \in BOOLEAN :
         IF ioerror
         THEN IF Catches("IOError", "IOError")
              THEN ReturnNone(134, "error", "")
              ELSE Propagate("IOError", 129)
         ELSE ReturnBytes(Read(fileContent, -1), 131)
    /\ UNCHANGED <<inputVars, scannerVars, fileExists, file_type, header, consulted>>

\* The environment removes the file, at any moment.
RemoveFile ==
    /\ fileExists
    /\ pc # "start"
    /\ fileExists' = FALSE
    /\ UNCHANGED <<inputVars, scannerVars, pc, file_type, header, handles,
                   resultVars, consulted>>

Next ==
    \/ Construct
    \/ IdentifyExists
    \/ IdentifyOpen
    \/ IdentifyRead
    \/ IdentifyTable
    \/ IdentifyMagic
    \/ ExtractDispatch
    \/ ExtractIsOle
    \/ ExtractOleOpen
    \/ ExtractOleStreams
    \/ ExtractJpegOpen
    \/ ExtractJpegRead
    \/ RemoveFile

Spec == Init /\ [][Next]_vars

NextIdentify ==
    \/ Construct
    \/ IdentifyExists
    \/ IdentifyOpen
    \/ IdentifyRead
    \/ IdentifyTable
    \/ IdentifyMagic
    \/ RemoveFile

SpecIdentify == InitIdentify /\ [][NextIdentify]_vars

\* ------------------------------------------------------------------------
\* Properties
\* ------------------------------------------------------------------------
\* A source that decodes into a signature table: a mapping from label to a
\* list of strings, each of them decodable hex.
WellFormedTable(doc) ==
    /\ doc.t = "obj"
    /\ \A i \in 1..Len(doc.items) :
         /\ doc.items[i][2].t = "arr"
         /\ \A j \in 1..Len(doc.items[i][2].a) :
              /\ doc.items[i][2].a[j].t = "str"
              /\ FromHex(doc.items[i][2].a[j].s).ok

\* The bytes of the signatures that the iteration of item i of the loaded
\* table yields and that decode.
DecodedSignatures(i) ==
    LET it == Iter(signatures.items[i][2])
    IN  {FromHex(it.v[j].s).v :
            j \in {k \in 1..Len(it.v) : it.v[k].t = "str" /\ FromHex(it.v[k].s).ok}}

\* The first HeaderSize bytes of the file.
FilePrefix == SubSeq(fileContent, 1, Min(HeaderSize, Len(fileContent)))

IsPrefixOf(d, data) ==
    /\ Len(d) <= Len(data)
    /\ \A k \in 1..Len(d) : d[k] = data[k]

\* Item i of the loaded table has a signature the file prefix starts with.
ItemMatches(i) == \E d \in DecodedSignatures(i) : IsPrefixOf(d, FilePrefix)

\* An identify call has just ended in the signature-database branch.
TableCallDone == pc = "idle" /\ consulted = "table"

\* C1: with a well-formed signature table loaded, identify returns the label
\* of the first item, in table iteration order, that has a signature the
\* first 1024 bytes of the file start with, and None when no item has one.
C1_FirstMatchWins ==
    (TableCallDone /\ WellFormedTable(signatures)) =>
        /\ outcome = "returned"
        /\ LET hits == {i \in 1..Len(signatures.items) : ItemMatches(i)}
           IN  IF hits = {}
               THEN retKind = "None"
               ELSE /\ retKind = "str"
                    /\ \E i \in hits :
                         /\ \A k \in hits : i <= k
                         /\ retLabel = signatures.items[i][1]

\* Two labels match, and the one returned is the first of the table although
\* it is not the first in alphabetical order.
C1_Witness ==
    /\ TableCallDone /\ WellFormedTable(signatures)
    /\ Len(signatures.items) = 2
    /\ ItemMatches(1) /\ ItemMatches(2)
    /\ retKind = "str" /\ retLabel = "B" /\ signatures.items[1][1] = "B"

\* C2: a label is returned only on account of a signature that is no longer
\* than the file (and no longer than the bytes read from it) and equals the
\* file's leading bytes: a signature longer than the file never matches.
C2_ShortFileNeverMatches ==
    (TableCallDone /\ outcome = "returned" /\ retKind = "str") =>
        \E i \in 1..Len(signatures.items) :
            /\ signatures.items[i][1] = retLabel
            /\ \E d \in DecodedSignatures(i) :
                 /\ Len(d) <= Len(fileContent)
                 /\ Len(d) <= HeaderSize
                 /\ \A k \in 1..Len(d) : d[k] = fileContent[k]

\* A call on a non-empty file returned None although a signature of the
\* table agrees with every byte of the file and is longer than the file.
C2_Witness ==
    /\ TableCallDone /\ outcome = "returned" /\ retKind = "None"
    /\ fileContent # <<>>
    /\ \E i \in 1..Len(signatures.items) : \E d \in DecodedSignatures(i) :
         /\ Len(d) > Len(fileContent)
         /\ \A k \in 1..Len(fileContent) : d[k] = fileContent[k]

\* The bytes read are fewer than the file holds, and a signature that the
\* whole file starts with, longer than the bytes read, did not match.
C2_WitnessLong ==
    /\ TableCallDone /\ outcome = "returned" /\ retKind = "None"
    /\ Len(fileContent) > HeaderSize
    /\ \E i \in 1..Len(signatures.items) : \E d \in DecodedSignatures(i) :
         IsPrefixOf(d, fileContent)

\* A signature source that does not decode into a signature table.
Malformed(src) ==
    \/ src.kind = "badjson"
    \/ src.kind = "json" /\ ~WellFormedTable(src.json)

\* C3: every malformed signature source is rejected by the constructor with
\* ValueError (the source-malformed error), so no scanner exists for it.
C3_MalformedRejected ==
    (pc # "start" /\ Malformed(source)) => (pc = "failed" /\ exc = "ValueError")

\* C4: when no call is running, no file or container handle is open.
C4_HandlesReleased ==
    pc \in {"start", "idle", "failed"} => handles = 0

\* C5: an extract call never ends with the I/O error of a file that cannot
\* be opened or read leaving the call as an exception.
C5_IOFailureIsFailure ==
    ~(pc = "idle" /\ file_type \in {OleType, JpegType} /\ outcome = "raised"
        /\ exc = "FileNotFoundError")

\* C6: an extract call that opened a container with at least one stream
\* returns the bytes of the first stream of the directory order.
C6_FirstStreamPayload ==
    (pc = "idle" /\ file_type = OleType /\ container.kind = "Ole"
        /\ container.dir # <<>> /\ exit \in {111, 113, 116, 123}) =>
        /\ outcome = "returned"
        /\ retKind = "bytes"
        /\ retBytes = StreamData(container.dir[1])

\* The exits of extract_data that report a failure: an invalid container,
\* a processing error, an unreadable file.
FailureExits == {119, 123, 134}

C9_WholeFilePayload ==
    (pc = "idle" /\ exit = 131) =>
        (outcome = "returned" /\ retKind = "bytes" /\ retBytes = fileContent)

\* The whole of a file longer than the header read was returned.
C9_Witness ==
    /\ pc = "idle" /\ exit = 131 /\ file_type = JpegType
    /\ Len(fileContent) > HeaderSize /\ Len(retBytes) = Len(fileContent)

\* The empty file was returned as the empty payload.
C9_WitnessEmpty ==
    /\ pc = "idle" /\ exit = 131 /\ fileContent = <<>> /\ retBytes = <<>>

\* C10: a step of identify that finds the file missing, at the existence
\* check or at the open after it, ends the call returning None, with neither
\* the signature table nor the classifier consulted.
C10_MissingFileIsNone ==
    [][(~fileExists /\ (IdentifyExists \/ IdentifyOpen)) =>
          (/\ pc' = "idle" /\ outcome' = "returned" /\ retKind' = "None"
           /\ consulted' = "none")]_vars

\* The file disappeared after the existence check, with a table loaded.
C10_Witness ==
    /\ pc = "idle" /\ exit = 65 /\ ~fileExists /\ signature_db
    /\ outcome = "returned" /\ retKind = "None" /\ consulted = "none"

====
